---------------------------- MODULE Spec2Model ----------------------------
(***************************************************************************)
(* Model of the smart-resume-matcher backend (backend/main.py and          *)
(* backend/skills_dictionary.py): the skill dictionary, the dictionary     *)
(* extractor, the enrichment of the resume skills, the classification of   *)
(* the job skills, the scoring engine and the calculate_match handler.     *)
(*                                                                         *)
(* Strings are TLA+ strings; Python's str operations are computed on them  *)
(* character by character with Len, SubSeq and \o.                         *)
(***************************************************************************)
EXTENDS Integers, Sequences, FiniteSets, TLC

VARIABLES
    groq_client,       \* main.py:32   TRUE when a Groq client was configured
    pc,                \* position of the operation under way
    job_description,   \* main.py:490  the text of the job description
    job_response,      \* main.py:316  what the external call gives the job side
    resume_text,       \* main.py:497  the text of the resume
    resume_response,   \* main.py:255  what the external call gives the resume side
    resume_skills,     \* main.py:503  the resume-side skill set
    job_requirements,  \* main.py:503  the bundle of the job side
    result,            \* what calculate_enhanced_match_score gave
    file,              \* main.py:489  the uploaded file
    rpc,               \* position of the task of extract_resume_skills_hybrid
    jpc,               \* position of the task of analyze_job_requirements_precise
    http               \* the response of calculate_match

vars == <<groq_client, pc, job_description, job_response, resume_text,
          resume_response, resume_skills, job_requirements, result,
          file, rpc, jpc, http>>

-----------------------------------------------------------------------------
(* Bounds of the model *)

\* longest required_technical list of a bundle handed to the scoring engine
MaxRequired == 2
\* longest preferred_technical list of a bundle handed to the scoring engine
MaxPreferred == 1
\* longest required_technical list of an external classification
MaxRequiredTerms == 2
\* longest preferred_technical list of an external classification
MaxPreferredTerms == 1
\* longest well-formed skill list of an external enrichment
MaxEnrichTerms == 2

-----------------------------------------------------------------------------
(* Python str operations *)

\* Python's None
None == "None"

\* the elements of a list
Range(seq) == {seq[i] : i \in 1..Len(seq)}

UpperLetters == <<"A","B","C","D","E","F","G","H","I","J","K","L","M",
                  "N","O","P","Q","R","S","T","U","V","W","X","Y","Z">>
LowerLetters == <<"a","b","c","d","e","f","g","h","i","j","k","l","m",
                  "n","o","p","q","r","s","t","u","v","w","x","y","z">>
Digits == {"0","1","2","3","4","5","6","7","8","9"}
Whitespace == {" ", "\t", "\n"}

\* the lower-case letter of every upper-case letter, and the reverse
ToLower == [c \in Range(UpperLetters) |->
               LowerLetters[CHOOSE i \in 1..26 : UpperLetters[i] = c]]
ToUpper == [c \in Range(LowerLetters) |->
               UpperLetters[CHOOSE i \in 1..26 : LowerLetters[i] = c]]

IsAlpha(c) == c \in DOMAIN ToLower \/ c \in DOMAIN ToUpper
LowerChar(c) == IF c \in DOMAIN ToLower THEN ToLower[c] ELSE c
UpperChar(c) == IF c \in DOMAIN ToUpper THEN ToUpper[c] ELSE c

CharAt(s, i) == SubSeq(s, i, i)

\* str.lower(): the characters at positions a..b, by halves
RECURSIVE LowerRange(_, _, _)
LowerRange(s, a, b) ==
    IF a > b THEN ""
    ELSE IF a = b THEN LowerChar(CharAt(s, a))
    ELSE LowerRange(s, a, (a + b) \div 2) \o LowerRange(s, (a + b) \div 2 + 1, b)
Lower(s) == LowerRange(s, 1, Len(s))

\* str.strip(): the first and the last position that hold no whitespace
Strip(s) ==
    LET keep == {i \in 1..Len(s) : CharAt(s, i) \notin Whitespace} IN
    IF keep = {} THEN ""
    ELSE SubSeq(s, CHOOSE i \in keep : \A j \in keep : i <= j,
                   CHOOSE i \in keep : \A j \in keep : i >= j)

\* str.replace(old, new) for a one-character old: the characters from i on
RECURSIVE ReplaceFrom(_, _, _, _)
ReplaceFrom(s, old, new, i) ==
    IF i > Len(s) THEN ""
    ELSE (IF CharAt(s, i) = old THEN new ELSE CharAt(s, i))
         \o ReplaceFrom(s, old, new, i + 1)
ReplaceChar(s, old, new) == ReplaceFrom(s, old, new, 1)

\* str.title(): the first letter of every run of letters in upper case, the
\* other letters in lower case; the characters from position i on
RECURSIVE TitleFrom(_, _)
TitleFrom(s, i) ==
    IF i > Len(s) THEN ""
    ELSE (IF i > 1 /\ IsAlpha(CharAt(s, i - 1))
          THEN LowerChar(CharAt(s, i)) ELSE UpperChar(CharAt(s, i)))
         \o TitleFrom(s, i + 1)
Title(s) == TitleFrom(s, 1)

\* `sub in s` for strings
Contains(s, sub) ==
    \E i \in 1..(Len(s) - Len(sub) + 1) : SubSeq(s, i, i + Len(sub) - 1) = sub

\* the lists over S of length at most n
SeqsUpTo(S, n) == UNION {[1..k -> S] : k \in 0..n}

-----------------------------------------------------------------------------
(* skills_dictionary.py *)

\* SKILL_SYNONYMS, in the order of the source (a dict keeps insertion order):
\* the entries the model keeps, each with its full synonym list. The lists
\* are written as _norm leaves them: the literals of the source are in lower
\* case, unpadded and without repeats.
SKILL_SYNONYMS == <<
    [canonical |-> "javascript", synonyms |-> <<
        "javascript", "js", "ecmascript", "es6", "es2015", "es2020",
        "node.js", "nodejs", "javascript developer", "javscript">>],
    [canonical |-> "python", synonyms |-> <<
        "python", "py", "python3", "python programming", "python developer",
        "python scripting", "django", "flask", "fastapi">>],
    [canonical |-> "java", synonyms |-> <<
        "java", "java programming", "java developer", "spring", "spring boot",
        "hibernate">>],
    [canonical |-> "csharp", synonyms |-> <<
        "c#", "c sharp", "csharp", ".net", "dotnet", "asp.net",
        "asp.net core">>],
    [canonical |-> "cpp", synonyms |-> <<
        "c++", "cplusplus", "c plus plus">>],
    [canonical |-> "r", synonyms |-> <<
        "r", "r programming", "r developer", "r statistical">>],
    [canonical |-> "react", synonyms |-> <<
        "react", "reactjs", "react.js", "react developer", "react native",
        "next.js", "nextjs">>],
    [canonical |-> "django", synonyms |-> <<
        "django", "django python", "django framework">>],
    [canonical |-> "spring", synonyms |-> <<
        "spring", "spring boot", "springboot", "spring framework">>],
    [canonical |-> "mysql", synonyms |-> <<
        "mysql", "my sql", "mysql database">>],
    [canonical |-> "postgresql", synonyms |-> <<
        "postgresql", "postgres", "postgres sql", "pg">>],
    [canonical |-> "sql", synonyms |-> <<
        "sql", "structured query language", "sql querying">>],
    [canonical |-> "gcp", synonyms |-> <<
        "gcp", "google cloud", "google cloud platform",
        "gcp cloud functions">>],
    [canonical |-> "communication", synonyms |-> <<
        "communication", "communication skills", "verbal communication",
        "written communication", "presentation skills", "public speaking">>],
    [canonical |-> "seo", synonyms |-> <<
        "seo", "search engine optimization", "organic search">>],
    [canonical |-> "clinical_research", synonyms |-> <<
        "clinical research", "clinical trials", "gcp",
        "good clinical practice">>],
    [canonical |-> "security_plus", synonyms |-> <<
        "security+", "comptia security+", "comptia security plus">>]
>>

\* the keys of SKILL_SYNONYMS
CanonicalKeys == {SKILL_SYNONYMS[i].canonical : i \in 1..Len(SKILL_SYNONYMS)}

\* the names the module skills_dictionary defines
SkillsDictionaryNames ==
    {"_norm", "SKILL_SYNONYMS", "get_all_skills", "find_standard_skill",
     "get_skill_synonyms"}

\* the loop of find_standard_skill over the entries from the i-th on: the
\* first key whose synonym list holds s
RECURSIVE FirstWithSynonym(_, _)
FirstWithSynonym(s, i) ==
    IF i > Len(SKILL_SYNONYMS) THEN None
    ELSE IF s \in Range(SKILL_SYNONYMS[i].synonyms)
         THEN SKILL_SYNONYMS[i].canonical
         ELSE FirstWithSynonym(s, i + 1)

\* find_standard_skill with the direct match by canonical key left out
find_standard_skill_by_synonym(skill_text) ==
    LET s == Lower(Strip(skill_text)) IN
    IF s = "" THEN None
    ELSE FirstWithSynonym(s, 1)

\* find_standard_skill
find_standard_skill(skill_text) ==
    LET s == Lower(Strip(skill_text)) IN
    IF s = "" THEN None
    ELSE IF s \in CanonicalKeys THEN s
    ELSE FirstWithSynonym(s, 1)

-----------------------------------------------------------------------------
(* main.py: display names and category matching *)

\* special_cases of format_skill_display
special_cases ==
    [k \in {"html", "css", "sql", "api", "rest", "graphql", "postgresql",
            "mysql", "mongodb", "javascript", "typescript", "nodejs", "react",
            "vue", "fastapi", "github", "digitalocean", "vscode", "ui", "ux",
            "git", "docker", "vite", "vercel", "railway", "supabase", "groq",
            "tailwind", "oop", "aws", "azure", "gcp", "tdd", "bdd", "mvc",
            "seo", "http", "https", "ssl", "cdn", "dns"} |->
     CASE k = "html" -> "HTML" [] k = "css" -> "CSS" [] k = "sql" -> "SQL"
       [] k = "api" -> "API" [] k = "rest" -> "REST API"
       [] k = "graphql" -> "GraphQL" [] k = "postgresql" -> "PostgreSQL"
       [] k = "mysql" -> "MySQL" [] k = "mongodb" -> "MongoDB"
       [] k = "javascript" -> "JavaScript" [] k = "typescript" -> "TypeScript"
       [] k = "nodejs" -> "Node.js" [] k = "react" -> "React"
       [] k = "vue" -> "Vue.js" [] k = "fastapi" -> "FastAPI"
       [] k = "github" -> "GitHub" [] k = "digitalocean" -> "DigitalOcean"
       [] k = "vscode" -> "VS Code" [] k = "ui" -> "UI" [] k = "ux" -> "UX"
       [] k = "git" -> "Git" [] k = "docker" -> "Docker" [] k = "vite" -> "Vite"
       [] k = "vercel" -> "Vercel" [] k = "railway" -> "Railway"
       [] k = "supabase" -> "Supabase" [] k = "groq" -> "Groq AI"
       [] k = "tailwind" -> "Tailwind CSS" [] k = "oop" -> "OOP"
       [] k = "aws" -> "AWS" [] k = "azure" -> "Azure" [] k = "gcp" -> "GCP"
       [] k = "tdd" -> "TDD" [] k = "bdd" -> "BDD" [] k = "mvc" -> "MVC"
       [] k = "seo" -> "SEO" [] k = "http" -> "HTTP" [] k = "https" -> "HTTPS"
       [] k = "ssl" -> "SSL/TLS" [] k = "cdn" -> "CDN" [] k = "dns" -> "DNS"]

\* format_skill_display
format_skill_display(skill) ==
    LET skill_lower == Strip(Lower(skill)) IN
    IF skill_lower \in DOMAIN special_cases THEN special_cases[skill_lower]
    ELSE Title(ReplaceChar(ReplaceChar(skill, "_", " "), "-", " "))

\* What a call gives: a value, or the exception it raises
Returned(v) == [raised |-> FALSE, value |-> v, exc |-> None]
Raised(e) == [raised |-> TRUE, value |-> None, exc |-> e]

\* skills_dictionary.get_skill_category: the attribute lookup on the module,
\* which defines no such name
get_skill_category(canonical) ==
    IF "get_skill_category" \in SkillsDictionaryNames
    THEN Returned(None)
    ELSE Raised("AttributeError")

\* find_category_match finding a related resume skill for every job skill of
\* the dictionary, as it would with a category table in place
find_category_match_found(job_skill, resume_set) ==
    IF find_standard_skill(job_skill) = None THEN Returned(FALSE)
    ELSE Returned(TRUE)

\* find_category_match(job_skill, resume_skills)
find_category_match(job_skill, resume_set) ==
    LET job_canonical == find_standard_skill(job_skill) IN
    IF job_canonical = None THEN Returned(FALSE)
    ELSE LET job_category == get_skill_category(job_canonical) IN
         IF job_category.raised THEN job_category
         ELSE Returned(FALSE)

-----------------------------------------------------------------------------
(* main.py: the scoring engine *)

\* set(s.lower() for s in xs)
LowerSet(xs) == {Lower(x) : x \in xs}

\* round(a / b, 0) as Python rounds: to the nearest integer, a tie to the even
RoundHalfEven(a, b) ==
    LET q == a \div b
        r == a % b
    IN  IF 2 * r < b THEN q
        ELSE IF 2 * r > b THEN q + 1
        ELSE IF q % 2 = 0 THEN q ELSE q + 1

\* final_score without the two caps at 100.0
final_score_uncapped(m, n, p, q) ==
    LET nd == IF n > 0 THEN n ELSE 1
        qd == IF q > 0 THEN q ELSE 1
        total_num == (IF n > 0 THEN m * 70 ELSE 0) * qd
                     + (IF q > 0 THEN p * 30 ELSE 0) * nd
        bonus == n > 0 /\ 10 * m >= 8 * n
    IN  RoundHalfEven(10 * (IF bonus THEN 11 * total_num ELSE 10 * total_num),
                      10 * nd * qd)

\* final_score with the preferred bucket worth 20 points instead of 30
final_score_weights(m, n, p, q) ==
    LET nd == IF n > 0 THEN n ELSE 1
        qd == IF q > 0 THEN q ELSE 1
        total_num == (IF n > 0 THEN m * 70 ELSE 0) * qd
                     + (IF q > 0 THEN p * 20 ELSE 0) * nd
        bonus == n > 0 /\ 10 * m >= 8 * n
        num == IF bonus THEN 11 * total_num ELSE 10 * total_num
        den == 10 * nd * qd
    IN  RoundHalfEven(10 * (IF num > 100 * den THEN 100 * den ELSE num), den)

\* final_score without the bonus for strong matches
final_score_nobonus(m, n, p, q) ==
    LET nd == IF n > 0 THEN n ELSE 1
        qd == IF q > 0 THEN q ELSE 1
        total_num == (IF n > 0 THEN m * 70 ELSE 0) * qd
                     + (IF q > 0 THEN p * 30 ELSE 0) * nd
    IN  RoundHalfEven(10 * total_num, nd * qd)

\* final_score with an empty required bucket counted as met in full
final_score_empty_met(m, n, p, q) ==
    LET nd == IF n > 0 THEN n ELSE 1
        qd == IF q > 0 THEN q ELSE 1
        total_num == (IF n > 0 THEN m * 70 ELSE 70) * qd
                     + (IF q > 0 THEN p * 30 ELSE 0) * nd
        bonus == n = 0 \/ 10 * m >= 8 * n
        num == IF bonus THEN 11 * total_num ELSE 10 * total_num
        den == 10 * nd * qd
        capped_num == IF num > 100 * den THEN 100 * den ELSE num
    IN  RoundHalfEven(10 * capped_num, den)

\* final_score with the preferred skills not matched counted in place of
\* those matched
final_score_unmatched_preferred(m, n, p, q) ==
    LET nd == IF n > 0 THEN n ELSE 1
        qd == IF q > 0 THEN q ELSE 1
        total_num == (IF n > 0 THEN m * 70 ELSE 0) * qd
                     + (IF q > 0 THEN (q - p) * 30 ELSE 0) * nd
        bonus == n > 0 /\ 10 * m >= 8 * n
        num == IF bonus THEN 11 * total_num ELSE 10 * total_num
        den == 10 * nd * qd
        capped_num == IF num > 100 * den THEN 100 * den ELSE num
    IN  RoundHalfEven(10 * capped_num, den)

\* final_score of calculate_enhanced_match_score in tenths of a point, from
\* the sizes m of n required and p of q preferred skills matched:
\*   required_score  = (m / n) * 70 when n > 0, else 0
\*   preferred_score = (p / q) * 30 when q > 0, else 0
\*   total_score     = required_score + preferred_score
\*   total_score     = min(total_score * 1.1, 100.0) when n > 0 and m / n >= 0.8
\*   final_score     = round(min(total_score, 100.0), 1)
final_score(m, n, p, q) ==
    LET nd == IF n > 0 THEN n ELSE 1
        qd == IF q > 0 THEN q ELSE 1
        required_num  == IF n > 0 THEN m * 70 ELSE 0
        preferred_num == IF q > 0 THEN p * 30 ELSE 0
        \* total_score = total_num / total_den
        total_num == required_num * qd + preferred_num * nd
        total_den == nd * qd
        bonus == n > 0 /\ 10 * m >= 8 * n
        \* total_score * 1.1 = (11 * total_num) / (10 * total_den)
        num == IF bonus THEN 11 * total_num ELSE 10 * total_num
        den == 10 * total_den
        capped_num == IF num > 100 * den THEN 100 * den ELSE num
    IN  RoundHalfEven(10 * capped_num, den)

\* the suggestions list
Suggestions(m, n, category_matched, matched_preferred) ==
    LET level ==
            IF n = 0 THEN <<>>
            ELSE IF m * 100 >= 90 * n
                 THEN <<[text |-> "Excellent match! You meet almost all required skills.",
                         args |-> {}]>>
            ELSE IF m * 100 >= 70 * n
                 THEN <<[text |-> "Strong match! You meet most required skills.",
                         args |-> {}]>>
            ELSE IF m * 100 >= 50 * n
                 THEN <<[text |-> "Good match! You meet about half of required skills.",
                         args |-> {}]>>
            ELSE <<>>
        related ==
            IF n > 0 /\ category_matched # {}
            THEN <<[text |-> "Note: Your experience in related areas covers: ",
                    args |-> {format_skill_display(s) : s \in category_matched}]>>
            ELSE <<>>
        bonus ==
            IF matched_preferred # {}
            THEN <<[text |-> "Bonus: You have {n} preferred skill(s).",
                    args |-> {Cardinality(matched_preferred)}]>>
            ELSE <<>>
    IN  level \o related \o bonus

\* truly_missing with the matched skills left in
truly_missing_all(required_tech, matched_required) == required_tech

\* truly_missing = required_tech - matched_required
truly_missing(required_tech, matched_required) ==
    required_tech \ matched_required

\* calculate_enhanced_match_score(resume_skills, job_requirements): the
\* result dict, or the exception of a category lookup. The sorted display
\* lists are given as the sets of their entries.
calculate_enhanced_match_score(resume, requirements) ==
    LET resume_set == LowerSet(resume)
        required_tech == LowerSet(Range(requirements.required_technical))
        preferred_tech == LowerSet(Range(requirements.preferred_technical))
        direct_required == required_tech \cap resume_set
        matched_preferred == preferred_tech \cap resume_set
        remaining_required == required_tech \ direct_required
        lookups == [s \in remaining_required |-> find_category_match(s, resume_set)]
        category_matched == {s \in remaining_required :
                                ~lookups[s].raised /\ lookups[s].value}
        matched_required == direct_required \cup category_matched
        direct_matches == matched_required \cap (resume_set \cap required_tech)
        category_matches == matched_required \ direct_matches
        m == Cardinality(matched_required)
        n == Cardinality(required_tech)
        p == Cardinality(matched_preferred)
        q == Cardinality(preferred_tech)
    IN  IF \E s \in remaining_required : lookups[s].raised
        THEN Raised(lookups[CHOOSE s \in remaining_required : lookups[s].raised].exc)
        ELSE Returned([
            score |-> final_score(m, n, p, q),
            breakdown |-> [required_match |-> <<m, n>>,
                           preferred_match |-> <<p, q>>,
                           direct_matches |-> Cardinality(direct_matches),
                           category_matches |-> Cardinality(category_matches)],
            matched_skills |-> {format_skill_display(s) : s \in matched_required},
            matched_preferred |-> {format_skill_display(s) : s \in matched_preferred},
            missing_critical |-> {format_skill_display(s) : s \in truly_missing(required_tech, matched_required)},
            suggestions |-> Suggestions(m, n, category_matched, matched_preferred)])

-----------------------------------------------------------------------------
(* main.py: the dictionary extractor *)

\* the characters \w matches
WordChars == DOMAIN ToLower \cup DOMAIN ToUpper \cup Digits \cup {"_"}

\* position k of t holds a \w character
WordAt(t, k) == k >= 1 /\ k <= Len(t) /\ CharAt(t, k) \in WordChars

\* \b matches between the positions k - 1 and k of t
Boundary(t, k) == WordAt(t, k - 1) # WordAt(t, k)

\* re.search(r'\b' + re.escape(w) + r'\b', t)
SearchWord(t, w) ==
    \E i \in 1..(Len(t) - Len(w) + 1) :
        /\ SubSeq(t, i, i + Len(w) - 1) = w
        /\ Boundary(t, i)
        /\ Boundary(t, i + Len(w))

\* one synonym of the loop of extract_skills_from_text_precise
SynonymFound(text_lower, synonym) ==
    IF Contains(synonym, " ") THEN Contains(text_lower, synonym)
    ELSE SearchWord(text_lower, synonym)

\* one entry of the loop: the canonical name, then the synonyms
EntryFound(text_lower, entry) ==
    \/ Contains(text_lower, entry.canonical) /\ SearchWord(text_lower, entry.canonical)
    \/ \E k \in 1..Len(entry.synonyms) : SynonymFound(text_lower, entry.synonyms[k])

\* skills_found over the lower-cased text
SkillsFound(text_lower) ==
    {SKILL_SYNONYMS[i].canonical :
        i \in {j \in 1..Len(SKILL_SYNONYMS) : EntryFound(text_lower, SKILL_SYNONYMS[j])}}

\* extract_skills_from_text_precise: text_lower is computed once
extract_skills_from_text_precise(text) ==
    UNION {SkillsFound(text_lower) : text_lower \in {Lower(text)}}

-----------------------------------------------------------------------------
(* main.py: extract_text_from_pdf *)

\* HTTPException(status_code, detail)
HTTPException(status_code, detail) == [status |-> status_code, detail |-> detail]

\* what the i-th character of text leaves in " ".join(text.split()): a
\* character of a word itself, the first whitespace after a word one space
\* when a word follows, any other whitespace nothing
JoinSplitChar(text, i) ==
    IF CharAt(text, i) \notin Whitespace THEN CharAt(text, i)
    ELSE IF /\ i > 1 /\ CharAt(text, i - 1) \notin Whitespace
            /\ \E j \in (i + 1)..Len(text) : CharAt(text, j) \notin Whitespace
    THEN " "
    ELSE ""

\* " ".join(text.split()) of the characters at positions a..b, by halves
RECURSIVE JoinSplitRange(_, _, _)
JoinSplitRange(text, a, b) ==
    IF a > b THEN ""
    ELSE IF a = b THEN JoinSplitChar(text, a)
    ELSE JoinSplitRange(text, a, (a + b) \div 2)
         \o JoinSplitRange(text, (a + b) \div 2 + 1, b)

JoinSplit(text) == JoinSplitRange(text, 1, Len(text))

\* extract_text_from_pdf(file_content): a file PyPDF2 cannot read raises in
\* the try block and the except clause raises the HTTPException; the text of
\* the pages of a readable one is cleaned up and returned
extract_text_from_pdf(file_content) ==
    IF ~file_content.readable
    THEN Raised(HTTPException(400, "Invalid or corrupted PDF file"))
    ELSE Returned(JoinSplit(file_content.text))

-----------------------------------------------------------------------------
(* The external call and the JSON values of its answer *)

\* JSON values: a string, a number, null, a list, an object (its keys in
\* order), and a key that is absent from the answer
JStr(s) == [t |-> "str", s |-> s, items |-> <<>>]
JNum == [t |-> "num", s |-> "5", items |-> <<>>]
JNull == [t |-> "null", s |-> "null", items |-> <<>>]
JList(items) == [t |-> "list", s |-> "", items |-> items]
JDict(keys) == [t |-> "dict", s |-> "", items |-> [i \in 1..Len(keys) |-> JStr(keys[i])]]
JAbsent == [t |-> "absent", s |-> "", items |-> <<>>]

\* What an answer of the external call is to the job side. kind:
\*   "failed"       the call raised: call_groq_api returns ""
\*   "none"         the completion has no content: call_groq_api returns None
\*   "no_object"    a text in which the pattern \{.*\} finds nothing
\*   "invalid_json" a text whose {...} part json.loads rejects
\*   "object"       a text whose {...} part is a JSON object with the values
\*                  required and preferred under the two keys
JobAnswer(kind, required, preferred) ==
    [kind |-> kind, required |-> required, preferred |-> preferred]
NoJobAnswer == JobAnswer("failed", JAbsent, JAbsent)

\* What an answer of the external call is to the resume side. kind:
\*   "failed", "none"  as above
\*   "no_array"        a text in which the pattern \[.*?\] finds nothing
\*   "invalid_json"    a text whose [...] part json.loads rejects
\*   "array"           a text whose [...] part is a JSON array of the items
ResumeAnswer(kind, items) == [kind |-> kind, items |-> items]
NoResumeAnswer == ResumeAnswer("failed", <<>>)

\* `for x in value`: the items Python iterates over, or the TypeError
Iterate(value) ==
    CASE value.t = "absent" -> Returned(<<>>)
      [] value.t = "list"   -> Returned(value.items)
      [] value.t = "dict"   -> Returned(value.items)
      [] value.t = "str"    -> Returned([i \in 1..Len(value.s) |-> JStr(CharAt(value.s, i))])
      [] OTHER              -> Raised("TypeError")

-----------------------------------------------------------------------------
(* main.py: extract_resume_skills_hybrid *)

\* any(x in s for x in words)
AnyIn(words, s) == \E i \in 1..Len(words) : Contains(s, words[i])

\* the soft skills the enrichment leaves out
enrichment_soft_skills == <<
    "communication", "teamwork", "leadership", "problem solving",
    "collaboration", "time management", "adaptability">>

\* the body of the loop with every term the dictionary does not know dropped
EnrichedSkill_known_only(skill_clean) ==
    IF find_standard_skill(skill_clean) # None
    THEN {find_standard_skill(skill_clean)}
    ELSE {}

\* the body of the loop over ai_extracted for skill_clean: what is added to
\* ai_skills
EnrichedSkill(skill_clean) ==
    IF find_standard_skill(skill_clean) # None
    THEN {find_standard_skill(skill_clean)}
    ELSE IF Len(skill_clean) > 2 /\ ~AnyIn(enrichment_soft_skills, skill_clean)
    THEN {skill_clean}
    ELSE {}

\* the loop over ai_extracted from the i-th item on, ai_skills being filled
\* in place: an item that is no string raises at .lower(), the except clause
\* ends the loop and ai_skills keeps what it holds
RECURSIVE AiSkillsFrom(_, _, _)
AiSkillsFrom(items, i, ai_skills) ==
    IF i > Len(items) THEN ai_skills
    ELSE IF items[i].t # "str" THEN ai_skills
    ELSE AiSkillsFrom(items, i + 1,
                      ai_skills \cup EnrichedSkill(Strip(Lower(items[i].s))))

\* ai_skills after the try block over the answer
AiSkills(answer) ==
    IF answer.kind = "array" THEN AiSkillsFrom(answer.items, 1, {}) ELSE {}

\* extract_resume_skills_hybrid(resume_text), given the client and the answer
\* of the external call
extract_resume_skills_hybrid(text, client, answer) ==
    extract_skills_from_text_precise(text)
    \cup (IF client THEN AiSkills(answer) ELSE {})

-----------------------------------------------------------------------------
(* main.py: analyze_job_requirements_precise *)

soft_skill_indicators == <<
    "communication", "teamwork", "leadership", "problem solving",
    "collaboration", "time management", "adaptability", "creativity",
    "critical thinking", "work ethic", "interpersonal", "presentation",
    "organizational", "business acumen", "thrive", "learn rapidly",
    "master", "diagnosis", "creative", "aggressive", "budgets">>

conceptual_skills == <<
    "rdbms", "relational database", "relational databases",
    "web applications", "web development", "web programming",
    "session management", "network diagnostics", "network analytics",
    "search engine optimization", "object oriented programming",
    "security", "diagnostics", "analytics", "best practices">>

\* the mapping of a conceptual skill: what is appended for skill_lower
ConceptualSkill(skill_lower) ==
    IF Contains(skill_lower, "rdbms") \/ Contains(skill_lower, "relational database")
    THEN <<"sql">>
    ELSE IF Contains(skill_lower, "object oriented") \/ Contains(skill_lower, "oop")
    THEN <<"oop">>
    ELSE IF /\ Contains(skill_lower, "web")
            /\ (Contains(skill_lower, "development") \/ Contains(skill_lower, "programming"))
    THEN <<"javascript">>
    ELSE IF Contains(skill_lower, "seo") \/ Contains(skill_lower, "search engine")
    THEN <<"seo">>
    ELSE IF /\ Contains(skill_lower, "network")
            /\ (Contains(skill_lower, "diagnostics") \/ Contains(skill_lower, "analytics"))
    THEN <<"http">>
    ELSE <<>>

\* the body of the loop over one bucket for skill_lower: what is appended to
\* normalized[key]
NormalizedSkill(skill_lower) ==
    IF AnyIn(soft_skill_indicators, skill_lower) THEN <<>>
    ELSE IF find_standard_skill(skill_lower) # None
    THEN <<find_standard_skill(skill_lower)>>
    ELSE IF AnyIn(conceptual_skills, skill_lower) THEN ConceptualSkill(skill_lower)
    ELSE <<>>

\* the loop over the items of one bucket from the i-th on, acc being
\* normalized[key] so far: the list, or the AttributeError of .lower() on an
\* item that is no string
RECURSIVE NormalizeItems(_, _, _)
NormalizeItems(items, i, acc) ==
    IF i > Len(items) THEN Returned(acc)
    ELSE IF items[i].t # "str" THEN Raised("AttributeError")
    ELSE NormalizeItems(items, i + 1,
                        acc \o NormalizedSkill(Strip(Lower(items[i].s))))

\* the loop over parsed.get(key, [])
NormalizeBucket(value) ==
    IF Iterate(value).raised THEN Iterate(value)
    ELSE NormalizeItems(Iterate(value).value, 1, <<>>)

\* list(S): the skills of a set as a list. The order is that of CPython's
\* set iteration; every reader takes the list as a set (main.py:400-401), and
\* the model keeps one order.
SetToSeq(S) ==
    CHOOSE f \in UNION {[1..Cardinality(T) -> T] : T \in {S}} :
        Cardinality(Range(f)) = Len(f)

\* the fallback at the end of analyze_job_requirements_precise
Fallback(dict_skills) ==
    [required_technical |-> SetToSeq(dict_skills), preferred_technical |-> <<>>]

\* the bundle built from the two normalized lists alone, the dictionary
\* findings left out
Normalized_answer_only(required, preferred, dict_skills) ==
    [required_technical |-> SetToSeq(Range(required)),
     preferred_technical |-> SetToSeq(Range(preferred))]

\* the bundle built from the two normalized lists: the repeats removed, the
\* dictionary findings not yet categorized added to required
Normalized(required, preferred, dict_skills) ==
    [required_technical |->
         SetToSeq(Range(required))
         \o SetToSeq(dict_skills \ (Range(required) \cup Range(preferred))),
     preferred_technical |-> SetToSeq(Range(preferred))]

\* the try block over the answer, dict_skills being the dictionary findings
AnalyzeAnswer(answer, dict_skills) ==
    IF answer.kind # "object" THEN Fallback(dict_skills)
    ELSE IF NormalizeBucket(answer.required).raised
            \/ NormalizeBucket(answer.preferred).raised
    THEN Fallback(dict_skills)
    ELSE Normalized(NormalizeBucket(answer.required).value,
                    NormalizeBucket(answer.preferred).value, dict_skills)

\* analyze_job_requirements_precise(job_text), given the client and the
\* answer of the external call
analyze_job_requirements_precise(job_text, client, answer) ==
    IF client THEN AnalyzeAnswer(answer, extract_skills_from_text_precise(job_text))
    ELSE Fallback(extract_skills_from_text_precise(job_text))

-----------------------------------------------------------------------------
(* The scoring engine called on its own *)

\* the skill strings of the scoring inputs: dictionary skills, and a term the
\* dictionary does not know, written in upper case
ScoreSkills == {"python", "react", "mysql", "postgresql", "OOP"}

\* the bundles handed to the scoring engine
Bundles ==
    [required_technical : SeqsUpTo(ScoreSkills, MaxRequired),
     preferred_technical : SeqsUpTo(ScoreSkills, MaxPreferred)]

NoResult == [raised |-> FALSE, value |-> None, exc |-> None]

\* no request to calculate_match is under way
NoFile == [readable |-> FALSE, text |-> ""]
NoResponse == [status |-> 0, detail |-> ""]
NoRequest ==
    /\ file = NoFile
    /\ rpc = "idle"
    /\ jpc = "idle"
    /\ http = NoResponse

InitScore ==
    /\ groq_client = FALSE
    /\ pc = "score"
    /\ job_description = ""
    /\ job_response = NoJobAnswer
    /\ resume_text = ""
    /\ resume_response = NoResumeAnswer
    /\ resume_skills \in SUBSET ScoreSkills
    /\ job_requirements \in Bundles
    /\ result = NoResult
    /\ NoRequest

\* result = calculate_enhanced_match_score(resume_skills, job_requirements)
Score ==
    /\ pc = "score"
    /\ result' = calculate_enhanced_match_score(resume_skills, job_requirements)
    /\ pc' = "scored"
    /\ UNCHANGED <<groq_client, job_description, job_response, resume_text,
                   resume_response, resume_skills, job_requirements,
                   file, rpc, jpc, http>>

NextScore == Score

SpecScore == InitScore /\ [][NextScore]_vars

-----------------------------------------------------------------------------
(* calculate_enhanced_match_score called again for the same bundle, with a
   resume that lists the skills scored before and possibly more *)

\* the skill names of the two calls: two the dictionary knows, two it does not
RescoreSkills == {"python", "react", "OOP", "UML"}

RescoreBundles ==
    [required_technical : SeqsUpTo(RescoreSkills, MaxRequired),
     preferred_technical : SeqsUpTo(RescoreSkills, MaxPreferred)]

InitRescore ==
    /\ groq_client = FALSE
    /\ pc = "score"
    /\ job_description = ""
    /\ job_response = NoJobAnswer
    /\ resume_text = ""
    /\ resume_response = NoResumeAnswer
    /\ resume_skills \in SUBSET RescoreSkills
    /\ job_requirements \in RescoreBundles
    /\ result = NoResult
    /\ NoRequest

\* result = calculate_enhanced_match_score(resume_skills, job_requirements)
\* for a larger set of resume skills, after a call that returned
Rescore ==
    /\ pc = "scored"
    /\ ~result.raised
    /\ \E larger \in SUBSET RescoreSkills :
        /\ resume_skills \subseteq larger
        /\ resume_skills' = larger
        /\ result' = calculate_enhanced_match_score(larger, job_requirements)
    /\ pc' = "rescored"
    /\ UNCHANGED <<groq_client, job_description, job_response, resume_text,
                   resume_response, job_requirements, file, rpc, jpc, http>>

NextRescore == Score \/ Rescore

SpecRescore == InitRescore /\ [][NextRescore]_vars

-----------------------------------------------------------------------------
(* analyze_job_requirements_precise called on its own *)

\* the job descriptions of the model
JobTexts == {"", "Python, React", "SQL and good communication"}

\* the terms of the lists of an external classification: a key of the
\* dictionary in upper case, a synonym, a soft skill, a conceptual skill and
\* a term nothing knows
JobTerms == {"Python", " py", "team leadership", "Relational Databases",
             "unknown_xyz"}

\* the values an answer may hold under a bucket key: a list of terms, and
\* what is no list of strings
BucketValues(n) ==
    {JList(l) : l \in SeqsUpTo({JStr(x) : x \in JobTerms}, n)}
    \cup {JAbsent, JNull, JStr("rust"), JDict(<<"python">>),
          JList(<<JStr("Python"), JNum>>)}

\* the answers of the external call to the job side
JobAnswers ==
    {JobAnswer(k, JAbsent, JAbsent) : k \in {"failed", "none", "no_object", "invalid_json"}}
    \cup {JobAnswer("object", r, p) :
            r \in BucketValues(MaxRequiredTerms), p \in BucketValues(MaxPreferredTerms)}

InitAnalyze ==
    /\ groq_client \in BOOLEAN
    /\ pc = "analyze"
    /\ job_description \in JobTexts
    /\ job_response \in (IF groq_client THEN JobAnswers ELSE {NoJobAnswer})
    /\ resume_text = ""
    /\ resume_response = NoResumeAnswer
    /\ resume_skills = {}
    /\ job_requirements = Fallback({})
    /\ result = NoResult
    /\ NoRequest

\* job_requirements = analyze_job_requirements_precise(job_description)
Analyze ==
    /\ pc = "analyze"
    /\ job_requirements' =
           analyze_job_requirements_precise(job_description, groq_client, job_response)
    /\ pc' = "analyzed"
    /\ UNCHANGED <<groq_client, job_description, job_response, resume_text,
                   resume_response, resume_skills, result,
                   file, rpc, jpc, http>>

NextAnalyze == Analyze

SpecAnalyze == InitAnalyze /\ [][NextAnalyze]_vars

-----------------------------------------------------------------------------
(* extract_resume_skills_hybrid called on its own *)

\* the resume texts of the model
EnrichTexts == {"", "I know SQL"}

\* the terms of the list of an external enrichment: a key of the dictionary
\* with capitals, a padded synonym, two terms the dictionary does not know
\* (a long and a short one), a phrase with a soft skill in it
EnrichTerms == {"Python", " py ", "unknown_xyz", "qt", "Team Communication"}

\* the answers of the external call to the resume side: the lists of terms,
\* and two lists with a number in them
ResumeAnswers ==
    {ResumeAnswer(k, <<>>) : k \in {"failed", "none", "no_array", "invalid_json"}}
    \cup {ResumeAnswer("array", l) :
            l \in SeqsUpTo({JStr(x) : x \in EnrichTerms}, MaxEnrichTerms)}
    \cup {ResumeAnswer("array", <<JStr("Python"), JNum, JStr("unknown_xyz")>>),
          ResumeAnswer("array", <<JNum>>)}

InitEnrich ==
    /\ groq_client \in BOOLEAN
    /\ pc = "enrich"
    /\ job_description = ""
    /\ job_response = NoJobAnswer
    /\ resume_text \in EnrichTexts
    /\ resume_response \in (IF groq_client THEN ResumeAnswers ELSE {NoResumeAnswer})
    /\ resume_skills = {}
    /\ job_requirements = Fallback({})
    /\ result = NoResult
    /\ NoRequest

\* resume_skills = extract_resume_skills_hybrid(resume_text)
Enrich ==
    /\ pc = "enrich"
    /\ resume_skills' =
           extract_resume_skills_hybrid(resume_text, groq_client, resume_response)
    /\ pc' = "enriched"
    /\ UNCHANGED <<groq_client, job_description, job_response, resume_text,
                   resume_response, job_requirements, result,
                   file, rpc, jpc, http>>

NextEnrich == Enrich

SpecEnrich == InitEnrich /\ [][NextEnrich]_vars

-----------------------------------------------------------------------------
(* main.py: calculate_match, one request *)

\* the shortest resume text calculate_match accepts
MinResumeLength == 100

\* the uploads of the model: a file PyPDF2 cannot read, a text of 16
\* characters, one of 100 with two skills of the dictionary in it, the same
\* with one character less and a doubled space (100 characters as extracted,
\* 99 cleaned up), and one of 109 with no skill in it
Files == {
    [readable |-> FALSE, text |-> ""],
    [readable |-> TRUE, text |-> "Python developer"],
    [readable |-> TRUE, text |-> "Software engineer with eight years of work building web services in Python and React for retail use."],
    [readable |-> TRUE, text |-> "Software engineer with eight years of work building web services in Python and  React for retail us."],
    [readable |-> TRUE, text |-> "Warehouse supervisor who planned daily shipping, trained new staff and kept exact inventory lists up to date."]}

\* the answers of the external call to the resume task
RequestResumeAnswers == {
    ResumeAnswer("failed", <<>>),
    ResumeAnswer("invalid_json", <<>>),
    ResumeAnswer("array", <<JStr("Python"), JStr("unknown_xyz")>>),
    ResumeAnswer("array", <<JStr("SQL"), JNum>>)}

\* the answers of the external call to the job task
RequestJobAnswers == {
    JobAnswer("failed", JAbsent, JAbsent),
    JobAnswer("no_object", JAbsent, JAbsent),
    JobAnswer("object", JList(<<JStr("Python")>>), JList(<<JStr("Relational Databases")>>)),
    JobAnswer("object", JList(<<>>), JList(<<JStr("React")>>))}

Init ==
    /\ groq_client \in BOOLEAN
    /\ pc = "start"
    /\ file \in Files
    /\ job_description \in JobTexts
    /\ job_response = NoJobAnswer
    /\ resume_text = ""
    /\ resume_response = NoResumeAnswer
    /\ resume_skills = {}
    /\ job_requirements = Fallback({})
    /\ result = NoResult
    /\ rpc = "idle"
    /\ jpc = "idle"
    /\ http = NoResponse

\* calculate_match up to asyncio.gather with the check of the length left
\* out
ReadResume_unchecked ==
    /\ pc = "start"
    /\ LET extracted == extract_text_from_pdf(file) IN
       IF extracted.raised
       THEN /\ http' = extracted.exc
            /\ pc' = "done"
            /\ UNCHANGED <<resume_text, rpc, jpc>>
       ELSE /\ resume_text' = extracted.value
            /\ pc' = "gather"
            /\ rpc' = "start"
            /\ jpc' = "start"
            /\ UNCHANGED http
    /\ UNCHANGED <<groq_client, file, job_description, job_response,
                   resume_response, resume_skills, job_requirements, result>>

\* calculate_match up to asyncio.gather: the file is read and its text
\* extracted; an HTTPException of extract_text_from_pdf or of the length
\* check passes the except clauses and is the response
ReadResume ==
    /\ pc = "start"
    /\ LET extracted == extract_text_from_pdf(file) IN
       IF extracted.raised
       THEN /\ http' = extracted.exc
            /\ pc' = "done"
            /\ UNCHANGED <<resume_text, rpc, jpc>>
       ELSE /\ resume_text' = extracted.value
            /\ IF Len(extracted.value) < MinResumeLength
               THEN /\ http' = HTTPException(400, "Resume text too short or unreadable")
                    /\ pc' = "done"
                    /\ UNCHANGED <<rpc, jpc>>
               ELSE /\ pc' = "gather"
                    /\ rpc' = "start"
                    /\ jpc' = "start"
                    /\ UNCHANGED http
    /\ UNCHANGED <<groq_client, file, job_description, job_response,
                   resume_response, resume_skills, job_requirements, result>>

\* the first step of the task of extract_resume_skills_hybrid, the first of
\* the two asyncio.gather schedules: with no client it runs to its return,
\* with a client it is suspended at the await of call_groq_api
ResumeTaskStart ==
    /\ pc = "gather"
    /\ rpc = "start"
    /\ IF groq_client
       THEN /\ rpc' = "waiting"
            /\ UNCHANGED resume_skills
       ELSE /\ resume_skills' =
                   extract_resume_skills_hybrid(resume_text, groq_client, resume_response)
            /\ rpc' = "done"
    /\ UNCHANGED <<groq_client, pc, file, job_description, job_response,
                   resume_text, resume_response, job_requirements, result,
                   jpc, http>>

\* the first step of the task of analyze_job_requirements_precise, which the
\* event loop runs after the first step of the resume task
JobTaskStart ==
    /\ pc = "gather"
    /\ jpc = "start"
    /\ rpc # "start"
    /\ IF groq_client
       THEN /\ jpc' = "waiting"
            /\ UNCHANGED job_requirements
       ELSE /\ job_requirements' =
                   analyze_job_requirements_precise(job_description, groq_client, job_response)
            /\ jpc' = "done"
    /\ UNCHANGED <<groq_client, pc, file, job_description, job_response,
                   resume_text, resume_response, resume_skills, result,
                   rpc, http>>

\* call_groq_api returns to the resume task, which runs to its return; the
\* wake-up comes after the first step of the job task, which was scheduled
\* before it
ResumeTaskResume ==
    /\ pc = "gather"
    /\ rpc = "waiting"
    /\ jpc # "start"
    /\ \E answer \in RequestResumeAnswers :
        /\ resume_response' = answer
        /\ resume_skills' = extract_resume_skills_hybrid(resume_text, groq_client, answer)
    /\ rpc' = "done"
    /\ UNCHANGED <<groq_client, pc, file, job_description, job_response,
                   resume_text, job_requirements, result, jpc, http>>

\* the answer of the external call that never comes: the task stays suspended
JobTaskResume_never ==
    /\ pc = "gather"
    /\ jpc = "waiting"
    /\ UNCHANGED vars

\* call_groq_api returns to the job task, which runs to its return
JobTaskResume ==
    /\ pc = "gather"
    /\ jpc = "waiting"
    /\ \E answer \in RequestJobAnswers :
        /\ job_response' = answer
        /\ job_requirements' =
               analyze_job_requirements_precise(job_description, groq_client, answer)
    /\ jpc' = "done"
    /\ UNCHANGED <<groq_client, pc, file, job_description, resume_text,
                   resume_response, resume_skills, result, rpc, http>>

\* the scoring run as soon as the resume task is done, without waiting for
\* the job task
Respond_early ==
    /\ pc = "gather"
    /\ rpc = "done"
    /\ LET scored == calculate_enhanced_match_score(resume_skills, job_requirements) IN
        /\ result' = scored
        /\ http' = IF scored.raised
                   THEN HTTPException(500, "Internal error: " \o scored.exc)
                   ELSE HTTPException(200, "")
    /\ pc' = "done"
    /\ UNCHANGED <<groq_client, file, job_description, job_response, resume_text,
                   resume_response, resume_skills, job_requirements, rpc, jpc>>

\* calculate_match after asyncio.gather: both tasks are done, the score is
\* computed and returned; an exception of calculate_enhanced_match_score is
\* no HTTPException and the last except clause makes the response of it
Respond ==
    /\ pc = "gather"
    /\ rpc = "done"
    /\ jpc = "done"
    /\ LET scored == calculate_enhanced_match_score(resume_skills, job_requirements) IN
        /\ result' = scored
        /\ http' = IF scored.raised
                   THEN HTTPException(500, "Internal error: " \o scored.exc)
                   ELSE HTTPException(200, "")
    /\ pc' = "done"
    /\ UNCHANGED <<groq_client, file, job_description, job_response, resume_text,
                   resume_response, resume_skills, job_requirements, rpc, jpc>>

Next ==
    \/ ReadResume
    \/ ResumeTaskStart
    \/ JobTaskStart
    \/ ResumeTaskResume
    \/ JobTaskResume
    \/ Respond

Spec == Init /\ [][Next]_vars

\* One request under the scheduling of the event loop: a step of the handler
\* or of a task that is ready is run, and the thread of asyncio.to_thread
\* ends, with the completion of the client or with the exception that
\* call_groq_api catches, and wakes its task up
SpecLive ==
    /\ Spec
    /\ WF_vars(ReadResume)
    /\ WF_vars(ResumeTaskStart)
    /\ WF_vars(JobTaskStart)
    /\ WF_vars(ResumeTaskResume)
    /\ WF_vars(JobTaskResume)
    /\ WF_vars(Respond)

-----------------------------------------------------------------------------
(* extract_skills_from_text_precise called on its own *)

\* the texts of the model: a surface form of the dictionary, or a word that
\* holds one, with something before it and something after it
ExtractPrefixes == {"", "x", "foo", "compute", "I know ", "Dr. "}
ExtractCores == {"java", "JavaScript", "js", "pg", "r", "r programming", "my sql",
                 ".net", "c#", "c++", "security+", "Python"}
ExtractSuffixes == {"", "x", "11", " developer", ", React", "script"}
ExtractTexts ==
    {a \o b \o c : a \in ExtractPrefixes, b \in ExtractCores, c \in ExtractSuffixes}

InitExtract ==
    /\ groq_client = FALSE
    /\ pc = "extract"
    /\ job_description = ""
    /\ job_response = NoJobAnswer
    /\ resume_text \in ExtractTexts
    /\ resume_response = NoResumeAnswer
    /\ resume_skills = {}
    /\ job_requirements = Fallback({})
    /\ result = NoResult
    /\ NoRequest

\* resume_skills = extract_skills_from_text_precise(resume_text)
Extract ==
    /\ pc = "extract"
    /\ resume_skills' = extract_skills_from_text_precise(resume_text)
    /\ pc' = "extracted"
    /\ UNCHANGED <<groq_client, job_description, job_response, resume_text,
                   resume_response, job_requirements, result,
                   file, rpc, jpc, http>>

NextExtract == Extract

SpecExtract == InitExtract /\ [][NextExtract]_vars

-----------------------------------------------------------------------------
(* analyze_job_requirements_precise with no client, then the scoring engine *)

\* the job texts, the resume skills and the bundles given as they are
SoftJobTexts == JobTexts \cup {"Python and communication"}
SoftResumeSkills == {"sql", "python", "react", "communication"}
SoftBundles == {
    [required_technical |-> <<"sql", "communication">>, preferred_technical |-> <<>>],
    [required_technical |-> <<"sql">>, preferred_technical |-> <<"communication">>],
    [required_technical |-> <<>>, preferred_technical |-> <<"sql", "communication">>]}

InitJobScore ==
    /\ groq_client = FALSE
    /\ \/ /\ pc = "analyze"
          /\ job_description \in SoftJobTexts
          /\ job_requirements = Fallback({})
       \/ /\ pc = "analyzed"
          /\ job_description = ""
          /\ job_requirements \in SoftBundles
    /\ job_response = NoJobAnswer
    /\ resume_text = ""
    /\ resume_response = NoResumeAnswer
    /\ resume_skills \in SUBSET SoftResumeSkills
    /\ result = NoResult
    /\ NoRequest

\* result = calculate_enhanced_match_score(resume_skills, job_requirements)
\* on the bundle of the analysis
ScoreBundle ==
    /\ pc = "analyzed"
    /\ result' = calculate_enhanced_match_score(resume_skills, job_requirements)
    /\ pc' = "scored"
    /\ UNCHANGED <<groq_client, job_description, job_response, resume_text,
                   resume_response, resume_skills, job_requirements,
                   file, rpc, jpc, http>>

NextJobScore == Analyze \/ ScoreBundle

SpecJobScore == InitJobScore /\ [][NextJobScore]_vars

-----------------------------------------------------------------------------
(* find_standard_skill called on its own *)

\* the surface forms of the dictionary: the keys and the synonyms
AllForms ==
    CanonicalKeys
    \cup UNION {Range(SKILL_SYNONYMS[i].synonyms) : i \in 1..Len(SKILL_SYNONYMS)}

\* the tokens looked up: every surface form as it is, with capitals and with
\* blanks around it, the empty token and one the dictionary does not know
LookupTokens ==
    AllForms
    \cup {Title(w) : w \in AllForms}
    \cup {" " \o w \o "\n" : w \in AllForms}
    \cup {"", "  ", "unknown_xyz"}

\* the token is held in resume_text, the canonical key found in result
InitLookup ==
    /\ groq_client = FALSE
    /\ pc = "lookup"
    /\ job_description = ""
    /\ job_response = NoJobAnswer
    /\ resume_text \in LookupTokens
    /\ resume_response = NoResumeAnswer
    /\ resume_skills = {}
    /\ job_requirements = Fallback({})
    /\ result = NoResult
    /\ NoRequest

\* result = find_standard_skill(resume_text)
Lookup ==
    /\ pc = "lookup"
    /\ result' = Returned(find_standard_skill(resume_text))
    /\ pc' = "looked_up"
    /\ UNCHANGED <<groq_client, job_description, job_response, resume_text,
                   resume_response, resume_skills, job_requirements,
                   file, rpc, jpc, http>>

NextLookup == Lookup

SpecLookup == InitLookup /\ [][NextLookup]_vars

-----------------------------------------------------------------------------
(* Claims about the scoring engine, checked under SpecScore *)

\* the call of the scoring engine has ended
Scored == pc = "scored"
\* the inputs of the call, as the engine compares them
ResumeSet == LowerSet(resume_skills)
RequiredSet == LowerSet(Range(job_requirements.required_technical))
PreferredSet == LowerSet(Range(job_requirements.preferred_technical))
Display(S) == {format_skill_display(s) : s \in S}

\* C1: calculate_enhanced_match_score raises no exception: for every resume
\* skill set and every bundle of lists of strings the call returns a result.
C1_NoException == Scored => ~result.raised

\* C3: the score of a returned result is within [0, 100] (0..1000 tenths),
\* also after the strong-match bonus.
C3_ScoreInRange ==
    (Scored /\ ~result.raised) =>
        (result.value.score >= 0 /\ result.value.score <= 1000)

\* C3 witness: every skill of both buckets matched, the bonus applied on a
\* total of 100 points, and the score is 100.0.
C3_Witness ==
    /\ Scored /\ ~result.raised
    /\ RequiredSet # {} /\ PreferredSet # {}
    /\ result.value.breakdown.required_match[1] = Cardinality(RequiredSet)
    /\ result.value.breakdown.preferred_match[1] = Cardinality(PreferredSet)
    /\ result.value.score = 1000

\* |x| for integers
Abs(x) == IF x < 0 THEN -x ELSE x

C4_Example ==
    /\ resume_skills = {"python"}
    /\ job_requirements = [required_technical |-> <<"python", "react">>,
                           preferred_technical |-> <<>>]
C4_ExampleUnknown ==
    /\ resume_skills = {"python"}
    /\ job_requirements = [required_technical |-> <<"python", "OOP">>,
                           preferred_technical |-> <<>>]

FullMatch ==
    /\ RequiredSet \cup PreferredSet # {}
    /\ (RequiredSet \cup PreferredSet) \subseteq ResumeSet

\* the inputs of the example of C5
C5_Example ==
    /\ resume_skills = {"postgresql", "mysql"}
    /\ job_requirements = [required_technical |-> <<"postgresql", "mysql">>,
                           preferred_technical |-> <<>>]

\* C5 as claimed: when the resume holds every skill of the bundle the score
\* is 100.0, as for required = [postgresql, mysql], resume = {postgresql,
\* mysql}.
C5_FullMatchIsHundred ==
    (Scored /\ FullMatch) => (~result.raised /\ result.value.score = 1000)

\* C5 amended: when the resume holds every skill of the bundle the call
\* returns and the score is 100.0 when both buckets name a skill, 77.0 when
\* only required does and 30.0 when only preferred does; the example yields
\* 77.0, and the bonus never moves the score past 100.
C5_FullMatchScore ==
    (Scored /\ FullMatch) =>
        /\ ~result.raised
        /\ result.value.score =
               IF RequiredSet # {} /\ PreferredSet # {} THEN 1000
               ELSE IF RequiredSet # {} THEN 770
               ELSE 300
        /\ result.value.score <= 1000
        /\ C5_Example => result.value.score = 770

\* C5 witness: the example has been scored, 77.0.
C5_Witness ==
    /\ Scored /\ C5_Example /\ FullMatch
    /\ ~result.raised /\ result.value.score = 770

C7_MissingIsRequiredUnmatched ==
    (Scored /\ ~result.raised) =>
        /\ result.value.missing_critical =
               {d \in Display(RequiredSet) : d \notin result.value.matched_skills}
        /\ \A s \in (PreferredSet \ RequiredSet) \ ResumeSet :
               format_skill_display(s) \notin result.value.missing_critical

\* C7 witness: a result with a missing required skill, a matched required
\* skill and a preferred skill the resume lacks.
C7_Witness ==
    /\ Scored /\ ~result.raised
    /\ result.value.missing_critical # {}
    /\ result.value.matched_skills # {}
    /\ (PreferredSet \ RequiredSet) \ ResumeSet # {}

-----------------------------------------------------------------------------
(* Claims about analyze_job_requirements_precise, checked under SpecAnalyze *)

Analyzed == pc = "analyzed"
RequiredOut == Range(job_requirements.required_technical)
PreferredOut == Range(job_requirements.preferred_technical)

\* a bucket value that is a list of strings
ListOfStrings(value) ==
    /\ value.t = "list"
    /\ \A i \in 1..Len(value.items) : value.items[i].t = "str"

\* the external classification is unavailable, failed, or its output is no
\* bucket structure: no JSON object, invalid JSON, or a bucket value that is
\* present and is no list of strings
Unusable ==
    \/ ~groq_client
    \/ job_response.kind # "object"
    \/ \E value \in {job_response.required, job_response.preferred} :
           value.t # "absent" /\ ~ListOfStrings(value)

\* C8: whenever the external classification is unavailable, fails or gives
\* output that is no bucket structure, the bundle has exactly the dictionary
\* findings of the job text in required and an empty preferred bucket.
C8_FallbackBundle ==
    (Analyzed /\ Unusable) =>
        /\ RequiredOut = extract_skills_from_text_precise(job_description)
        /\ job_requirements.preferred_technical = <<>>

\* C9: in every bundle analyze_job_requirements_precise gives, no skill is
\* in both required_technical and preferred_technical.
C9_BucketsDisjoint ==
    Analyzed => RequiredOut \cap PreferredOut = {}

-----------------------------------------------------------------------------
(* Claims about extract_resume_skills_hybrid, checked under SpecEnrich *)

Enriched == pc = "enriched"

\* the external call gave a list of strings
TermsGiven ==
    /\ groq_client
    /\ resume_response.kind = "array"
    /\ \A i \in 1..Len(resume_response.items) : resume_response.items[i].t = "str"
Terms == {resume_response.items[i].s : i \in 1..Len(resume_response.items)}

\* the canonical id of a term the dictionary knows, else the term lower-cased
\* and trimmed
CanonicalOrRaw(term) ==
    IF find_standard_skill(term) # None THEN find_standard_skill(term)
    ELSE Strip(Lower(term))

\* the answer ["Python", "unknown_xyz"]
C10_Example ==
    /\ groq_client
    /\ resume_response = ResumeAnswer("array", <<JStr("Python"), JStr("unknown_xyz")>>)

\* C10 as claimed: every term of the list is in the result as its canonical
\* id, or else lower-cased and trimmed, and none is dropped.
C10_NeverDropped ==
    (Enriched /\ TermsGiven) =>
        \A term \in Terms : CanonicalOrRaw(term) \in resume_skills

\* C10 amended: the result is the dictionary findings of the text and, for
\* every term of the list, its canonical id when the dictionary knows it, and
\* otherwise the lower-cased, trimmed term when that is longer than two
\* characters and holds none of the seven soft-skill phrases; such a term is
\* kept and every other unknown term is dropped. An empty list adds nothing
\* and ["Python", "unknown_xyz"] adds {"python", "unknown_xyz"}.
C10_Normalization ==
    (Enriched /\ TermsGiven) =>
        /\ resume_skills =
               extract_skills_from_text_precise(resume_text)
               \cup {CanonicalOrRaw(term) : term \in
                       {x \in Terms :
                           \/ find_standard_skill(x) # None
                           \/ /\ Len(Strip(Lower(x))) > 2
                              /\ \A k \in 1..Len(enrichment_soft_skills) :
                                     ~Contains(Strip(Lower(x)), enrichment_soft_skills[k])}}
        /\ Terms = {} => resume_skills = extract_skills_from_text_precise(resume_text)
        /\ (C10_Example /\ resume_text = "") => resume_skills = {"python", "unknown_xyz"}

\* C10 witness: the answer ["Python", "unknown_xyz"] on an empty text has
\* given {"python", "unknown_xyz"}.
C10_Witness ==
    /\ Enriched /\ TermsGiven /\ C10_Example /\ resume_text = ""
    /\ resume_skills = {"python", "unknown_xyz"}

-----------------------------------------------------------------------------
(* Claims about calculate_match, checked under Spec *)

Done == pc = "done"

\* the response is a complete match result
CompleteResult ==
    /\ http.status = 200
    /\ ~result.raised
    /\ DOMAIN result.value = {"score", "breakdown", "matched_skills",
                              "matched_preferred", "missing_critical", "suggestions"}

\* the response is a rejection of the input with its reason
InputRejection ==
    /\ http.status = 400
    /\ http.detail \in {"Invalid or corrupted PDF file",
                        "Resume text too short or unreadable"}
    /\ result = NoResult

\* C2: every request to calculate_match ends in a complete match result or
\* in a rejection of the input with its reason, and in nothing else,
\* whatever the external call gives.
C2_ResultOrRejection ==
    Done => (CompleteResult \/ InputRejection)

-----------------------------------------------------------------------------
(* Failures of the external enrichment, checked under SpecEnrich *)

\* the external enrichment failed or gave a malformed answer: no text, no
\* JSON array in it, invalid JSON, or a list with an item that is no string
MalformedEnrichment ==
    /\ groq_client
    /\ \/ resume_response.kind # "array"
       \/ \E i \in 1..Len(resume_response.items) : resume_response.items[i].t # "str"

\* C11: when the external enrichment fails or gives a malformed answer, the
\* result of extract_resume_skills_hybrid is the dictionary findings of the
\* text and nothing more.
C11_MalformedAddsNothing ==
    (Enriched /\ MalformedEnrichment) =>
        resume_skills = extract_skills_from_text_precise(resume_text)

-----------------------------------------------------------------------------
(* Termination of calculate_match, checked under SpecLive *)

\* the request has its response
Responded == Done /\ http.status # 0

\* neither external call gave a usable answer
NoUsableAnswer ==
    /\ resume_response.kind # "array"
    /\ job_response.kind # "object"

\* the response that the dictionary findings alone give
DictionaryOnlyResult ==
    calculate_enhanced_match_score(
        extract_skills_from_text_precise(resume_text),
        Fallback(extract_skills_from_text_precise(job_description)))

-----------------------------------------------------------------------------
(* Claims about extract_skills_from_text_precise, checked under SpecExtract *)

Extracted == pc = "extracted"

\* w is in t at position i with no letter, digit or underscore next to it
WholeAt(t, w, i) ==
    /\ SubSeq(t, i, i + Len(w) - 1) = w
    /\ ~WordAt(t, i - 1)
    /\ ~WordAt(t, i + Len(w))

\* w is in t as a whole word or, with spaces in it, as a whole phrase
OccursWhole(t, w) == \E i \in 1..(Len(t) - Len(w) + 1) : WholeAt(t, w, i)

\* w is in t, but only inside longer words
OnlyInsideWord(t, w) == Contains(t, w) /\ ~OccursWhole(t, w)

SingleToken(w) == ~Contains(w, " ")

\* the surface forms of an entry: its key and its synonyms
SurfaceForms(entry) == {entry.canonical} \cup Range(entry.synonyms)

\* C13: a skill none of whose multi-word synonyms is in the text, and whose
\* single-token surface forms are in the text only inside longer words, if
\* at all, is not reported; the text "javascript" does not report java.
C13_NoMatchInsideWord ==
    Extracted =>
        /\ \A j \in 1..Len(SKILL_SYNONYMS) :
            (\A w \in SurfaceForms(SKILL_SYNONYMS[j]) :
                IF SingleToken(w) THEN ~OccursWhole(Lower(resume_text), w)
                ELSE ~Contains(Lower(resume_text), w))
            => SKILL_SYNONYMS[j].canonical \notin resume_skills
        /\ resume_text = "JavaScript" => "java" \notin resume_skills

\* C14: a skill is reported only when one of its surface forms is in the
\* text as a whole word or a whole phrase; "r programming" inside
\* "computer programming" does not report r.
C14_OnlyWholeWordOrPhrase ==
    Extracted =>
        \A j \in 1..Len(SKILL_SYNONYMS) :
            SKILL_SYNONYMS[j].canonical \in resume_skills
            => \E w \in SurfaceForms(SKILL_SYNONYMS[j]) :
                   OccursWhole(Lower(resume_text), w)

-----------------------------------------------------------------------------
(* Soft skills in the scoring, checked under SpecJobScore *)

\* a sequence with every x left out
RECURSIVE SeqWithout(_, _)
SeqWithout(seq, x) ==
    IF seq = <<>> THEN <<>>
    ELSE IF Lower(Head(seq)) = x THEN SeqWithout(Tail(seq), x)
    ELSE <<Head(seq)>> \o SeqWithout(Tail(seq), x)

\* the bundle with the skill left out of the job's skills
BundleWithout(bundle, x) ==
    [required_technical |-> SeqWithout(bundle.required_technical, x),
     preferred_technical |-> SeqWithout(bundle.preferred_technical, x)]

\* the job names the soft skill communication and the resume lacks it
SoftSkillLacking ==
    /\ "communication" \in RequiredSet \cup PreferredSet
    /\ "communication" \notin ResumeSet

\* the scoring of the bundle with communication left out
ScoreWithoutSoft ==
    calculate_enhanced_match_score(resume_skills,
                                   BundleWithout(job_requirements, "communication"))

\* C15: when the job names communication and the resume lacks it, the
\* scoring returns the score it returns for the bundle with communication
\* left out, wherever that one returns; for a bundle given as it is and for
\* one the fallback path built from a job text.
C15_SoftSkillGated ==
    (Scored /\ SoftSkillLacking /\ ~ScoreWithoutSoft.raised) =>
        /\ ~result.raised
        /\ result.value.score = ScoreWithoutSoft.value.score

-----------------------------------------------------------------------------
(* Suggestions for missing skills, checked under SpecScore *)

\* the category the claim is tried on: the two databases of the model
DatabaseSkills == {"postgresql", "mysql"}
SameCategory(a, b) == a # b /\ {a, b} \subseteq DatabaseSkills

\* a required skill the resume lacks, with a required skill of its category
\* that the resume has
RelatedSkillMatched ==
    \E s \in RequiredSet \ ResumeSet, t \in RequiredSet \cap ResumeSet :
        SameCategory(s, t)

\* the skills the i-th suggestion names: only the note on related areas
\* names any
SuggestionNames(i) ==
    IF result.value.suggestions[i].text
           = "Note: Your experience in related areas covers: "
    THEN result.value.suggestions[i].args
    ELSE {}

\* some suggestion names both skills
SuggestionNaming(s, t) ==
    \E i \in 1..Len(result.value.suggestions) :
        {format_skill_display(s), format_skill_display(t)} \subseteq SuggestionNames(i)

\* C16: when a required skill is missing and a matched skill is of its
\* category, the result is there and a suggestion of it names the two; no
\* suggestion names a missing skill with no matched skill of its category.
C16_TransferableSuggestion ==
    Scored =>
        /\ RelatedSkillMatched => ~result.raised
        /\ ~result.raised =>
            \A s \in RequiredSet :
                format_skill_display(s) \in result.value.missing_critical =>
                    /\ \A t \in RequiredSet \cup PreferredSet :
                        (/\ SameCategory(s, t)
                         /\ format_skill_display(t) \in
                                result.value.matched_skills
                                \cup result.value.matched_preferred)
                        => SuggestionNaming(s, t)
                    /\ (\E i \in 1..Len(result.value.suggestions) :
                            format_skill_display(s) \in SuggestionNames(i))
                       => \E t \in RequiredSet \cup PreferredSet :
                              SameCategory(s, t) /\ SuggestionNaming(s, t)

-----------------------------------------------------------------------------
(* Rejected inputs of calculate_match, checked under Spec *)

\* the file cannot be read, or its text is too short
UnreadableFile == ~file.readable
ShortText == file.readable /\ Len(JoinSplit(file.text)) < MinResumeLength

\* no task of the request has started, nothing was extracted, no external
\* call was made and nothing was scored
CoreUntouched ==
    /\ rpc = "idle"
    /\ jpc = "idle"
    /\ resume_skills = {}
    /\ resume_response = NoResumeAnswer
    /\ job_response = NoJobAnswer
    /\ job_requirements = Fallback({})
    /\ result = NoResult

\* C17: for a file that cannot be read or whose text is shorter than 100
\* characters, the first step of calculate_match ends the request with status
\* 400 and the reason, and at no time of the request is a skill extracted,
\* an external call made or a score computed.
C17_InputErrorsStopEarly ==
    (UnreadableFile \/ ShortText) =>
        /\ CoreUntouched
        /\ pc \in {"start", "done"}
        /\ Done =>
            /\ http.status = 400
            /\ UnreadableFile => http.detail = "Invalid or corrupted PDF file"
            /\ ShortText => http.detail = "Resume text too short or unreadable"

\* C17 witness: a readable file of 100 characters whose cleaned text has 99
\* was rejected.
C17_Witness ==
    /\ Done /\ ShortText
    /\ Len(file.text) = 100 /\ Len(resume_text) = 99
    /\ http = HTTPException(400, "Resume text too short or unreadable")
    /\ CoreUntouched

-----------------------------------------------------------------------------
(* Empty buckets, checked under SpecScore *)

EmptyBuckets ==
    /\ job_requirements.required_technical = <<>>
    /\ job_requirements.preferred_technical = <<>>

\* C18: with both buckets empty the scoring returns, whatever the resume
\* holds, the score 0 with nothing matched and nothing missing.
C18_EmptyBucketsScoreZero ==
    (Scored /\ EmptyBuckets) =>
        /\ ~result.raised
        /\ result.value.score = 0
        /\ result.value.matched_skills = {}
        /\ result.value.matched_preferred = {}
        /\ result.value.missing_critical = {}
        /\ result.value.breakdown.required_match = <<0, 0>>
        /\ result.value.breakdown.preferred_match = <<0, 0>>

\* C18 witness: empty buckets were scored for a resume that holds skills,
\* with score 0.
C18_Witness ==
    /\ Scored /\ EmptyBuckets
    /\ resume_skills = {"python", "react"}
    /\ result.value.score = 0

-----------------------------------------------------------------------------
(* The round trip of the dictionary, checked under SpecLookup *)

LookedUp == pc = "looked_up"

\* the token is a key that an entry earlier in the dictionary lists as a
\* synonym
SynonymOfEarlierEntry(k) ==
    \E i, j \in 1..Len(SKILL_SYNONYMS) :
        /\ i < j
        /\ SKILL_SYNONYMS[j].canonical = k
        /\ k \in Range(SKILL_SYNONYMS[i].synonyms)

\* C19: find_standard_skill of a canonical key is the key itself, also for a
\* key that another entry lists as a synonym.
C19_KeyRoundTrip ==
    (LookedUp /\ resume_text \in CanonicalKeys) => result.value = resume_text

\* C19 witness: a key that an earlier entry lists as a synonym was looked up
\* and found as itself.
C19_Witness ==
    /\ LookedUp
    /\ resume_text = "django"
    /\ SynonymOfEarlierEntry(resume_text)
    /\ result.value = "django"

-----------------------------------------------------------------------------
(* The two tasks of asyncio.gather, checked under SpecLive *)

\* the file passes the checks of calculate_match
ValidInput == ~UnreadableFile /\ ~ShortText

\* both tasks have returned
BothDone == rpc = "done" /\ jpc = "done"

\* the scoring of what the two extractions give for the texts and for the
\* answers of the external calls, whichever came first
ResultOfInputs ==
    calculate_enhanced_match_score(
        extract_resume_skills_hybrid(resume_text, groq_client, resume_response),
        analyze_job_requirements_precise(job_description, groq_client, job_response))

\* C20: in every interleaving of the two tasks the scoring is run only when
\* both have returned, once (no step follows it, and for a valid input it is
\* run in the end), and its result is the scoring of what the two
\* extractions give for their inputs, whichever finished first.
C20_ScoredOnceAfterBoth ==
    /\ [][(pc = "gather" /\ pc' = "done") => BothDone]_vars
    /\ [][pc # "done"]_vars
    /\ [](ValidInput => <>(Done /\ BothDone))
    /\ []((Done /\ BothDone) => result = ResultOfInputs)

\* C20 witness: with a client, both tasks were suspended at the external
\* call, both have returned and the request has its match result.
C20_Witness ==
    /\ Done /\ BothDone /\ groq_client
    /\ resume_response.kind = "array" /\ job_response.kind = "object"
    /\ http.status = 200
    /\ result = ResultOfInputs

-----------------------------------------------------------------------------
(* The dictionary findings of the job text, checked under SpecAnalyze *)

\* C21: whatever the external call gives, every skill that
\* extract_skills_from_text_precise finds in the job text is in
\* required_technical or in preferred_technical of the bundle.
C21_NoFindingLost ==
    Analyzed =>
        extract_skills_from_text_precise(job_description)
            \subseteq RequiredOut \cup PreferredOut

\* C21 witness: the external call gave a bucket structure that names neither
\* finding of the job text, and both are in required_technical next to the
\* skill it names.
C21_Witness ==
    /\ Analyzed /\ groq_client
    /\ job_description = "SQL and good communication"
    /\ job_response = JobAnswer("object", JList(<<JStr("Python")>>), JList(<<>>))
    /\ RequiredOut = {"python", "sql", "communication"}
    /\ PreferredOut = {}

-----------------------------------------------------------------------------
(* The score as the resume grows, checked under SpecRescore *)

Rescored == pc = "rescored"

\* the scoring of the same bundle for the resume skills R
ScoreOf(R) == calculate_enhanced_match_score(R, job_requirements)

\* C22: when the same bundle is scored for a set of resume skills and again
\* for a set that holds the first, and the scoring returns both times, the
\* second score is at least the first and the second list of missing skills
\* is within the first.
C22_MonotoneInResume ==
    [][(/\ pc = "scored" /\ pc' = "rescored"
        /\ job_requirements' = job_requirements
        /\ resume_skills \subseteq resume_skills'
        /\ ~result.raised /\ ~result'.raised) =>
           /\ result'.value.score >= result.value.score
           /\ result'.value.missing_critical \subseteq result.value.missing_critical]_vars

\* C22 witness: the resume {python} scored 35.0 with a preferred skill
\* unmatched, and the resume with that skill added is scored 65.0.
C22_Witness ==
    /\ Rescored /\ ~result.raised
    /\ resume_skills = {"python", "react"}
    /\ job_requirements =
           [required_technical |-> <<"python", "OOP">>, preferred_technical |-> <<"react">>]
    /\ result.value.score = 650
    /\ ~ScoreOf({"python"}).raised
    /\ ScoreOf({"python"}).value.score = 350
    /\ result.value.missing_critical = ScoreOf({"python"}).value.missing_critical

-----------------------------------------------------------------------------
(* Completeness of the extraction on the dictionary's own surface forms,
   checked under SpecExtract *)

\* w is in t at position i with whitespace or an end of t on both sides
TokenAt(t, w, i) ==
    /\ SubSeq(t, i, i + Len(w) - 1) = w
    /\ (i = 1 \/ CharAt(t, i - 1) \in Whitespace)
    /\ (i + Len(w) - 1 = Len(t) \/ CharAt(t, i + Len(w)) \in Whitespace)

\* t consists of w alone, or w is a whitespace-delimited token of t
AloneOrToken(t, w) == \E i \in 1..(Len(t) - Len(w) + 1) : TokenAt(t, w, i)

\* C23: for every dictionary entry and every synonym of it, a text that
\* consists of the synonym alone or has it as a whitespace-delimited token
\* reports the entry's canonical skill; this includes the single-token
\* synonyms "c++", "c#", ".net" and "security+".
C23_SurfaceFormsReported ==
    Extracted =>
        \A j \in 1..Len(SKILL_SYNONYMS) :
            \A s \in Range(SKILL_SYNONYMS[j].synonyms) :
                AloneOrToken(resume_text, s)
                => SKILL_SYNONYMS[j].canonical \in resume_skills

=============================================================================
